---- MODULE Spec2Model ----
(***************************************************************************)
(* Model of batch_commit.py: main() reads the changed files from           *)
(* `git status`, commits them one by one up to a target count, commits     *)
(* the rest in one commit, and pushes.  Every git invocation is one step;  *)
(* git itself is the environment: an invocation exits zero, exits          *)
(* non-zero, or cannot be launched (subprocess raises OSError).            *)
(***************************************************************************)
EXTENDS Integers, Sequences, FiniteSets, TLC

\* ---- bounds of the model ----
MaxSmallN == 3      \* small change sets have 0..MaxSmallN files
MaxOver == 1        \* large change sets have up to target_commits + MaxOver files
MaxFailures == 2    \* git invocations the environment may fail in one run

\* ---- characters of the status output ----
\* A character is a pair <<kind, n>>; a name segment stands for a run of
\* ordinary characters and carries the number that tells names apart.
Sp == <<" ", 0>>
Quote == <<"\"", 0>>
Slash == <<"/", 0>>
Name(k) == <<"name", k>>
Dir(k) == <<"dir", k>>

\* ---- batch_commit.py ----
target_commits == 111

\* a basename that forgets to cut the directories off
BasenameWholePath(p) == p

\* os.path.basename: what follows the last slash (the whole path without one)
RECURSIVE basename(_)
basename(p) ==
    IF p = <<>> THEN <<>>
    ELSE IF p[Len(p)] = Slash THEN <<>>
    ELSE basename(SubSeq(p, 1, Len(p) - 1)) \o <<p[Len(p)]>>

\* line.strip() is empty: the line holds nothing but white space
IsBlank(line) == \A n \in 1..Len(line) : line[n] = Sp

\* get_changes, lines 28-30: drop the three status characters, then one
\* layer of surrounding double quotes
ParseLine(line) ==
    LET raw_path == SubSeq(line, 4, Len(line))
    IN  IF raw_path # <<>> /\ raw_path[1] = Quote /\ raw_path[Len(raw_path)] = Quote
        THEN SubSeq(raw_path, 2, Len(raw_path) - 1)
        ELSE raw_path

\* get_changes, lines 22-32: the paths of the non-blank lines, in order
NonBlank(line) == ~IsBlank(line)
ParseLines(ls) ==
    LET kept == SelectSeq(ls, NonBlank)
    IN  [k \in 1..Len(kept) |-> ParseLine(kept[k])]

\* a get_changes that parses whatever was printed even when git exited non-zero
GetChangesIgnoresExit(rc, lines) == ParseLines(lines)

\* get_changes, lines 17-32: a status query that exits non-zero yields []
get_changes(rc, lines) == IF rc = "nonzero" THEN <<>> ELSE ParseLines(lines)

\* main, line 39: nothing to commit, return at once
NoChanges(n) == n = 0

\* line 56 taken whenever total_files <= target_commits: the last assignment wins
LimitSecondWins(n) == IF n <= target_commits THEN n ELSE target_commits - 1

\* the first loop runs target_commits times when there are more files
LimitIsTarget(n) ==
    IF n <= target_commits
    THEN IF n < target_commits THEN n ELSE n - 1
    ELSE target_commits

\* main, lines 49-56: how many files the first loop commits one by one
Limit(n) ==
    IF n <= target_commits
    THEN IF n < target_commits THEN n ELSE n - 1
    ELSE target_commits - 1

\* remaining = files, the slice forgotten
RemainingAll(fs, lim) == fs

\* remaining = files[limit + 1:], one file skipped
RemainingSkipsOne(fs, lim) == SubSeq(fs, lim + 2, Len(fs))

\* main, line 69: remaining = files[limit:]
Remaining(fs, lim) == SubSeq(fs, lim + 1, Len(fs))

\* main, line 65 and line 78: the two commit messages
SingletonMsg(f) == <<"feat: update ", basename(f)>>
TerminalMsg == <<"refactor: complete project updates">>

\* the git command lines main builds
AddArgs(f) == <<"add", f>>
CommitArgs(msg) == <<"commit", "-m", msg>>
PushArgs == <<"push", "origin", "main">>
StatusArgs == <<"status", "-uall", "--porcelain">>

\* ---- the environment: the repository and the status output ----
Branches == {"main", "dev"}

\* the path git reports for the k-th changed file
PathOf(k) ==
    CASE k % 3 = 0 -> <<Name(k)>>
      [] k % 3 = 1 -> <<Dir(1), Slash, Name(k)>>
      [] OTHER     -> <<Dir(1), Slash, Dir(2), Slash, Name(k)>>

\* the porcelain line of the k-th changed file: XY, a space, the path,
\* double-quoted for some files; a path of st is staged already
StatusLine(k, st) ==
    LET xy == IF PathOf(k) \in st THEN <<<<"A", 0>>, Sp>>
              ELSE IF k % 2 = 0 THEN <<Sp, <<"M", 0>>>>
              ELSE <<<<"?", 0>>, <<"?", 0>>>>
    IN  IF k % 4 = 2
        THEN xy \o <<Sp, Quote>> \o PathOf(k) \o <<Quote>>
        ELSE xy \o <<Sp>> \o PathOf(k)

\* the output of the status query for n changed files, split at newlines:
\* the text ends with a newline, so the last piece is empty
StatusOutput(n, st) == [k \in 1..n |-> StatusLine(k, st)] \o <<<<>>>>

NValues == (0..MaxSmallN) \cup ((target_commits - 1)..(target_commits + MaxOver))

VARIABLES
    pc,               \* where main() is
    branch,           \* the checked-out branch
    lines,            \* what the status query prints, split at newlines
    staged0,          \* what the index held before the run
    status_rc,        \* how the status query ended
    files,            \* main: files
    total_files,      \* main: total_files
    limit,            \* main: limit
    i,                \* main: index of the first loop
    j,                \* main: position in remaining
    committed_count,  \* main: committed_count
    reported,         \* the count printed by the final summary, -1 before
    calls,            \* git invocations so far, in order
    index,            \* the repository's index: the staged paths
    created,          \* commits created in the repository so far
    head,             \* the newest created commit: its call and its files
    failures,         \* invocations the environment chose to fail so far
    not_ok            \* add and commit invocations that did not exit zero

vars == <<pc, branch, lines, staged0, status_rc, files, total_files, limit, i, j,
          committed_count, reported, calls, index, created, head, failures, not_ok>>

NoCommit == [at |-> 0, files |-> {}]

Init ==
    /\ pc = "start"
    /\ branch \in Branches
    /\ \E n \in NValues :
        /\ staged0 \in {{}} \cup {{PathOf(k)} : k \in {n} \ {0}}
        /\ lines = StatusOutput(n, staged0)
    /\ status_rc = "none"
    /\ files = <<>>
    /\ total_files = 0
    /\ limit = 0
    /\ i = 0
    /\ j = 0
    /\ committed_count = 0
    /\ reported = -1
    /\ calls = <<>>
    /\ index = staged0
    /\ created = 0
    /\ head = NoCommit
    /\ failures = 0
    /\ not_ok = 0

\* the ways the environment may end an invocation that could succeed
Outcomes == IF failures < MaxFailures THEN {"ok", "nonzero", "oserror"} ELSE {"ok"}

\* git commit with nothing staged exits non-zero
CommitOutcomes == IF index = {} THEN (Outcomes \ {"ok"}) \cup {"nonzero"} ELSE Outcomes

Failed(rc, forced) == IF rc # "ok" /\ ~forced THEN failures + 1 ELSE failures

\* where main goes after the first loop (lines 69-70, 81-85)
AfterLoop(fs, lim) == IF Remaining(fs, lim) # <<>> THEN "rem_add" ELSE "push"

\* lines 35-56: the status query, the early return, the limit
GetChanges ==
    /\ pc = "start"
    /\ \E rc \in Outcomes :
        /\ status_rc' = rc
        /\ failures' = Failed(rc, FALSE)
        /\ calls' = Append(calls, StatusArgs)
        /\ IF rc = "oserror"
           THEN /\ pc' = "raised"
                /\ UNCHANGED <<files, total_files, limit>>
           ELSE LET fs == get_changes(rc, lines)
                IN  /\ files' = fs
                    /\ total_files' = Len(fs)
                    /\ IF NoChanges(Len(fs))
                       THEN pc' = "done" /\ limit' = limit
                       ELSE /\ limit' = Limit(Len(fs))
                            /\ pc' = IF 0 < Limit(Len(fs)) THEN "add"
                                     ELSE AfterLoop(fs, Limit(Len(fs)))
    /\ UNCHANGED <<branch, lines, staged0, i, j, committed_count, reported, index,
                   created, head, not_ok>>

\* line 64: run_git(['add', f]) in the first loop
LoopAdd ==
    /\ pc = "add"
    /\ LET f == files[i + 1]
       IN  /\ calls' = Append(calls, AddArgs(f))
           /\ \E rc \in Outcomes :
               /\ failures' = Failed(rc, FALSE)
               /\ not_ok' = IF rc = "ok" THEN not_ok ELSE not_ok + 1
               /\ index' = IF rc = "ok" THEN index \cup {f} ELSE index
               /\ pc' = IF rc = "oserror" THEN "raised" ELSE "commit"
    /\ UNCHANGED <<branch, lines, staged0, status_rc, files, total_files, limit, i, j,
                   committed_count, reported, created, head>>

\* what one commit invocation does to the repository
GitCommit(rc) ==
    /\ failures' = Failed(rc, index = {})
    /\ not_ok' = IF rc = "ok" THEN not_ok ELSE not_ok + 1
    /\ IF rc = "ok"
       THEN /\ created' = created + 1
            /\ head' = [at |-> Len(calls) + 1, files |-> index]
            /\ index' = {}
       ELSE UNCHANGED <<created, head, index>>

\* lines 65-66: run_git(['commit', ...]); committed_count += 1; next i
LoopCommit ==
    /\ pc = "commit"
    /\ calls' = Append(calls, CommitArgs(SingletonMsg(files[i + 1])))
    /\ \E rc \in CommitOutcomes :
        /\ GitCommit(rc)
        /\ IF rc = "oserror"
           THEN pc' = "raised" /\ UNCHANGED <<i, committed_count>>
           ELSE /\ committed_count' = committed_count + 1
                /\ i' = i + 1
                /\ pc' = IF i + 1 < limit THEN "add" ELSE AfterLoop(files, limit)
    /\ UNCHANGED <<branch, lines, staged0, status_rc, files, total_files, limit, j,
                   reported>>

\* lines 75-76: run_git(['add', f]) for each remaining file
RemAdd ==
    /\ pc = "rem_add"
    /\ LET remaining == Remaining(files, limit)
           f == remaining[j + 1]
       IN  /\ calls' = Append(calls, AddArgs(f))
           /\ \E rc \in Outcomes :
               /\ failures' = Failed(rc, FALSE)
               /\ not_ok' = IF rc = "ok" THEN not_ok ELSE not_ok + 1
               /\ index' = IF rc = "ok" THEN index \cup {f} ELSE index
               /\ IF rc = "oserror"
                  THEN pc' = "raised" /\ j' = j
                  ELSE /\ j' = j + 1
                       /\ pc' = IF j + 1 < Len(remaining) THEN "rem_add" ELSE "rem_commit"
    /\ UNCHANGED <<branch, lines, staged0, status_rc, files, total_files, limit, i,
                   committed_count, reported, created, head>>

\* lines 78-79: the commit of the remaining files
RemCommit ==
    /\ pc = "rem_commit"
    /\ calls' = Append(calls, CommitArgs(TerminalMsg))
    /\ \E rc \in CommitOutcomes :
        /\ GitCommit(rc)
        /\ IF rc = "oserror"
           THEN pc' = "raised" /\ UNCHANGED committed_count
           ELSE pc' = "push" /\ committed_count' = committed_count + 1
    /\ UNCHANGED <<branch, lines, staged0, status_rc, files, total_files, limit, i, j,
                   reported>>

\* lines 81-85: the summary, then run_git(['push', 'origin', 'main'])
Push ==
    /\ pc = "push"
    /\ reported' = committed_count
    /\ calls' = Append(calls, PushArgs)
    /\ \E rc \in Outcomes :
        /\ failures' = Failed(rc, FALSE)
        /\ pc' = IF rc = "oserror" THEN "raised" ELSE "done"
    /\ UNCHANGED <<branch, lines, staged0, status_rc, files, total_files, limit, i, j,
                   committed_count, index, created, head, not_ok>>

Next == GetChanges \/ LoopAdd \/ LoopCommit \/ RemAdd \/ RemCommit \/ Push

Spec == Init /\ [][Next]_vars

\* ---- reading the run ----
T == target_commits
N == total_files

IsAdd(c) == c[1] = "add"
IsCommit(c) == c[1] = "commit"
IsPush(c) == c[1] = "push"

\* the summary of line 81 was printed
Summarised == reported >= 0

\* nothing was staged before the run and every add and commit so far exited zero
CleanRun == staged0 = {} /\ not_ok = 0

\* the files passed to git add, in the order of the invocations
AddedFiles ==
    LET adds == SelectSeq(calls, IsAdd)
    IN  [k \in 1..Len(adds) |-> adds[k][2]]

\* the positions in calls of the commit invocations, in order
CommitAt == SelectSeq([p \in 1..Len(calls) |-> p], LAMBDA p : IsCommit(calls[p]))

\* the files staged for the invocation at position p: the adds right before it
GroupOf(p) ==
    LET q == CHOOSE q \in 0..(p - 1) :
                 /\ q = 0 \/ ~IsAdd(calls[q])
                 /\ \A r \in (q + 1)..(p - 1) : IsAdd(calls[r])
    IN  [k \in 1..(p - 1 - q) |-> calls[q + k][2]]

Range(f) == {f[k] : k \in DOMAIN f}

\* x is a path of the ChangeSet
InFiles(x) == \E k \in 1..Len(files) : files[k] = x

\* the part of a path after its last slash
Base(p) ==
    LET slashes == {k \in 1..Len(p) : p[k] = Slash}
        last == IF slashes = {} THEN 0 ELSE CHOOSE k \in slashes : \A m \in slashes : m <= k
    IN  SubSeq(p, last + 1, Len(p))

FeatMsg(f) == <<"feat: update ", Base(f)>>
RefactorMsg == <<"refactor: complete project updates">>

\* the files beyond the first T-1
Beyond == SubSeq(files, T, N)

\* the newest created commit holds exactly the file staged right before it
HeadIsFileJustStaged ==
    head.at > 0 =>
        /\ IsAdd(calls[head.at - 1])
        /\ head.files = {calls[head.at - 1][2]}
        /\ InFiles(calls[head.at - 1][2])

HeadFollowsPlan ==
    head.at > 0 =>
        IF created < T THEN head.files = {files[created]}
        ELSE created = T /\ head.files = Range(Beyond)

\* the commit invocations follow the plan: T of them, the k-th of the first
\* T-1 for files[k] alone, the last for the files beyond
InvocationsFollowPlan ==
    LET at == CommitAt
    IN  /\ Len(at) = T
        /\ \A k \in 1..(T - 1) : GroupOf(at[k]) = <<files[k]>>
        /\ GroupOf(at[T]) = Beyond

C3_Original ==
    (N = T /\ Summarised) =>
        /\ limit = N
        /\ \A p \in 1..Len(calls) : calls[p] # <<"commit", "-m", RefactorMsg>>
        /\ Len(CommitAt) = N

\* C3 amended: with N = T the first loop issues N-1 singleton commits
\* (limit = N-1) and the last file is committed alone by the commit of the
\* remaining files, N commit invocations in all
C3_Amended ==
    (N = T /\ Summarised) =>
        LET at == CommitAt
        IN  /\ limit = N - 1
            /\ Len(at) = N
            /\ \A k \in 1..(N - 1) :
                  /\ calls[at[k]] = <<"commit", "-m", FeatMsg(files[k])>>
                  /\ GroupOf(at[k]) = <<files[k]>>
            /\ calls[at[N]] = <<"commit", "-m", RefactorMsg>>
            /\ GroupOf(at[N]) = <<files[N]>>

C3_Witness ==
    /\ Summarised /\ N = T /\ pc = "done"
    /\ committed_count = T /\ i = T - 1 /\ j = 1

\* C4: every run that returns has attempted a push exactly once, after all
\* its add and commit invocations, whatever N >= 0 is
C4_PushOnceAtEnd ==
    pc = "done" =>
        /\ Len(SelectSeq(calls, IsPush)) = 1
        /\ IsPush(calls[Len(calls)])

\* C5: when the status query exits non-zero or reports no file, main issues
\* no add and no commit, creates no commit, and returns
C5_EmptyIsNoOp ==
    (status_rc = "nonzero" \/ (status_rc = "ok" /\ Len(lines) = 1)) =>
        /\ files = <<>>
        /\ pc = "done"
        /\ \A p \in 1..Len(calls) : ~IsAdd(calls[p]) /\ ~IsCommit(calls[p])
        /\ created = 0 /\ index = staged0

C5_Witness ==
    /\ status_rc = "nonzero" /\ Len(lines) > MaxSmallN
    /\ pc = "done" /\ calls = <<StatusArgs>>

\* the invocation just made is a commit
JustCommitted == calls # <<>> /\ IsCommit(calls[Len(calls)])

\* the refactor message goes with the commit of the files beyond the first
\* T-1 and with no other
RefactorIffBeyond ==
    JustCommitted =>
        (calls[Len(calls)][3] = RefactorMsg <=> GroupOf(Len(calls)) = Beyond)

\* C6 as stated: a commit for exactly one file carries "feat: update
\* <basename>", and the refactor message goes with the commit of the files
\* beyond the singleton allotment and with no other
C6_Original ==
    /\ JustCommitted =>
          LET group == GroupOf(Len(calls))
          IN  (Len(group) = 1 /\ InFiles(group[1])) =>
                  calls[Len(calls)][3] = FeatMsg(group[1])
    /\ RefactorIffBeyond

\* C6 amended: a commit for exactly one file carries "feat: update
\* <basename>" unless N = T and the file is the last one, which is the whole
\* terminal group and carries the refactor message; the refactor message goes
\* with the commit of files[T-1..N-1] and with no other
C6_Amended ==
    /\ JustCommitted =>
          LET group == GroupOf(Len(calls))
          IN  (Len(group) = 1 /\ InFiles(group[1])) =>
                  calls[Len(calls)][3] = IF N = T /\ group[1] = files[T] THEN RefactorMsg
                                         ELSE FeatMsg(group[1])
    /\ RefactorIffBeyond

C6_Witness ==
    /\ JustCommitted /\ N = T
    /\ GroupOf(Len(calls)) = <<files[T]>>
    /\ calls[Len(calls)][3] = RefactorMsg

\* C7: the count the summary reports is the number of commits created
C7_ReportedIsCreated == Summarised => reported = created

\* C8: no failure of a git invocation propagates out of main
C8_NothingPropagates == pc # "raised"

\* C9: the push names the remote origin and the checked-out branch
C9_PushesCurrentBranch ==
    (calls # <<>> /\ IsPush(calls[Len(calls)])) =>
        /\ calls[Len(calls)][2] = "origin"
        /\ calls[Len(calls)][3] = branch

Min(a, b) == IF a < b THEN a ELSE b

\* C10: over a run with N > 0 that reaches the summary every file of the
\* ChangeSet was passed to git add exactly once, in order, each add has a
\* later commit invocation, there are min(T, N) commit invocations; and at
\* no time is a path outside the ChangeSet staged
C10_Partition ==
    /\ (N > 0 /\ Summarised) =>
          /\ AddedFiles = files
          /\ \A a, b \in 1..N : files[a] = files[b] => a = b
          /\ LET at == CommitAt
              IN  /\ Len(at) = Min(T, N)
                  /\ \A p \in 1..Len(calls) : IsAdd(calls[p]) => at[Len(at)] > p
    /\ (calls # <<>> /\ IsAdd(calls[Len(calls)])) => InFiles(calls[Len(calls)][2])
    /\ \A x \in index : x \in staged0 \/ InFiles(x)

C10_Witness ==
    /\ Summarised /\ N > T /\ not_ok > 0
    /\ AddedFiles = files /\ Len(CommitAt) = T
====
